---------------------------- MODULE Spec2Model ----------------------------
(***************************************************************************)
(* Model of the profile MCP server (src/self_mcp_server.py) and of its     *)
(* client (src/slef_mcp_client.py).                                         *)
(*                                                                         *)
(* Python str values are TLA+ strings; Optional[T] is a sequence of zero   *)
(* (None) or one element; a dict is a function on its keys.                *)
(***************************************************************************)
EXTENDS Integers, Sequences, FiniteSets, TLC

VARIABLES
    pc,              \* position of the client: main() and interactive_chat()
    session,         \* self.session is set (the RPC channel is established)
    user_input,      \* the stripped input line of the current iteration
    raw_input,       \* the line as typed, before .strip()
    handled_as,      \* the branch of the loop that took the last input line
    relevant_tools,  \* result of _determine_relevant_tools for the turn
    context_parts,   \* the sections gathered so far in the turn
    context_data,    \* the joined context handed to query_llm_with_context
    calls,           \* the call_tool requests of the turn: name, arguments, text
    attempts,        \* the backends query_llm_with_context has tried, in order
    ollama_reply,    \* the HTTP reply _query_ollama received, None before it
    ollama_response, \* Optional[str] returned by _query_ollama
    hf_response,     \* Optional[str] returned by _query_huggingface
    response,        \* Optional[str]: the value query_llm_with_context returned
    rpc_state,       \* provider: "idle", "pending" (a request is in), "replied"
    rpc_name,        \* provider: name of the invoke request being handled
    rpc_args,        \* provider: Optional[dict] arguments of that request
    rpc_contents,    \* provider: extracted text per source during that request
    rpc_result,      \* provider: Optional sequence of text blocks returned
    fetch_url,       \* extraction: the url argument
    fetch_outcome,   \* extraction: what the HTTP fetch and the parse produced
    fetch_parts,     \* extraction: content_parts after the selector loop
    fetch_result     \* extraction: Optional[str] returned

vars == <<pc, session, user_input, raw_input, handled_as, relevant_tools,
          context_parts, context_data, calls, attempts, ollama_reply, ollama_response,
          hf_response, response, rpc_state, rpc_name, rpc_args, rpc_contents,
          rpc_result, fetch_url, fetch_outcome, fetch_parts, fetch_result>>

clientVars == <<pc, session, user_input, raw_input, handled_as, relevant_tools,
                context_parts, context_data, calls, attempts, ollama_reply, ollama_response,
                hf_response, response>>

rpcVars == <<rpc_state, rpc_name, rpc_args, rpc_contents, rpc_result>>

fetchVars == <<fetch_url, fetch_outcome, fetch_parts, fetch_result>>

-----------------------------------------------------------------------------
(* Python built-ins used by the source.                                    *)

None == <<>>

Some(v) == <<v>>

Min(a, b) == IF a < b THEN a ELSE b

\* s[:n]
Prefix(s, n) == SubSeq(s, 1, Min(n, Len(s)))

\* s[i:] with i counted from 1
Suffix(s, i) == SubSeq(s, i, Len(s))

CharAt(s, i) == SubSeq(s, i, i)

\* sub in s
Contains(s, sub) ==
    \E i \in 1..(Len(s) - Len(sub) + 1) : SubSeq(s, i, i + Len(sub) - 1) = sub

\* s.find(sub) counted from 1; 0 when sub does not occur
Find(s, sub) ==
    IF Contains(s, sub)
    THEN CHOOSE i \in 1..(Len(s) - Len(sub) + 1) :
            /\ SubSeq(s, i, i + Len(sub) - 1) = sub
            /\ \A j \in 1..(i - 1) : SubSeq(s, j, j + Len(sub) - 1) # sub
    ELSE 0

\* s.replace(old, new) for a non-empty old: leftmost occurrences, not overlapping
RECURSIVE Replace(_, _, _)
Replace(s, old, new) ==
    LET i == Find(s, old)
    IN  IF i = 0
        THEN s
        ELSE SubSeq(s, 1, i - 1) \o new \o Replace(Suffix(s, i + Len(old)), old, new)

UpperLetters == "ABCDEFGHIJKLMNOPQRSTUVWXYZ"

LowerLetters == "abcdefghijklmnopqrstuvwxyz"

IsUpper(c) == \E i \in 1..26 : CharAt(UpperLetters, i) = c

IsLower(c) == \E i \in 1..26 : CharAt(LowerLetters, i) = c

IsLetter(c) == IsUpper(c) \/ IsLower(c)

LowerChar(c) ==
    IF IsUpper(c)
    THEN CharAt(LowerLetters, CHOOSE i \in 1..26 : CharAt(UpperLetters, i) = c)
    ELSE c

UpperChar(c) ==
    IF IsLower(c)
    THEN CharAt(UpperLetters, CHOOSE i \in 1..26 : CharAt(LowerLetters, i) = c)
    ELSE c

\* s.lower(), on the characters lo..hi of s
RECURSIVE LowerRange(_, _, _)
LowerRange(s, lo, hi) ==
    IF lo > hi THEN ""
    ELSE IF lo = hi THEN LowerChar(CharAt(s, lo))
    ELSE LET mid == (lo + hi) \div 2
         IN  LowerRange(s, lo, mid) \o LowerRange(s, mid + 1, hi)

Lower(s) == LowerRange(s, 1, Len(s))

\* s.title(): a letter that follows a non-letter is upper-cased, any other
\* letter lower-cased
TitleChar(s, i) ==
    IF i = 1 \/ ~IsLetter(CharAt(s, i - 1))
    THEN UpperChar(CharAt(s, i))
    ELSE LowerChar(CharAt(s, i))

RECURSIVE TitleRange(_, _, _)
TitleRange(s, lo, hi) ==
    IF lo > hi THEN ""
    ELSE IF lo = hi THEN TitleChar(s, lo)
    ELSE LET mid == (lo + hi) \div 2
         IN  TitleRange(s, lo, mid) \o TitleRange(s, mid + 1, hi)

Title(s) == TitleRange(s, 1, Len(s))

IsSpace(c) == c \in {" ", "\t", "\n", "\r", "\f"}

\* s.strip()
Strip(s) ==
    LET keep == {i \in 1..Len(s) : ~IsSpace(CharAt(s, i))}
    IN  IF keep = {}
        THEN ""
        ELSE SubSeq(s, CHOOSE i \in keep : \A j \in keep : i <= j,
                       CHOOSE i \in keep : \A j \in keep : j <= i)

\* s.split(sep) for a non-empty sep
RECURSIVE Split(_, _)
Split(s, sep) ==
    LET i == Find(s, sep)
    IN  IF i = 0
        THEN <<s>>
        ELSE <<SubSeq(s, 1, i - 1)>> \o Split(Suffix(s, i + Len(sep)), sep)

\* sep.join(parts)
RECURSIVE Join(_, _)
Join(parts, sep) ==
    IF Len(parts) = 0 THEN ""
    ELSE IF Len(parts) = 1 THEN parts[1]
    ELSE parts[1] \o sep \o Join(Tail(parts), sep)

\* bool(x) of an Optional[str]: None and "" are falsy
Truthy(opt) == opt # None /\ opt[1] # ""

-----------------------------------------------------------------------------
(* Client: relevance ranking.                                              *)

\* tool_keywords, in dict (insertion) order
tool_keywords ==
    << [tool |-> "get_profile_overview",
        keywords |-> <<"overview", "about", "background", "who is", "introduction">>],
       [tool |-> "get_experience",
        keywords |-> <<"experience", "work", "job", "career", "professional",
                       "employment">>],
       [tool |-> "get_publications",
        keywords |-> <<"publication", "paper", "research", "conference", "academic">>],
       [tool |-> "get_career_timeline",
        keywords |-> <<"timeline", "history", "when", "career path", "progression">>],
       [tool |-> "get_social_links",
        keywords |-> <<"social", "linkedin", "instagram", "facebook", "youtube",
                       "contact">>] >>

\* the fallback when no keyword matched
default_tools == <<"get_profile_overview", "get_experience">>

\* the words that make a query a search query
search_words == <<"find", "search", "look for", "about">>

\* tools[:3]
MaxTools == 3

\* any(keyword in query_lower for keyword in keywords)
AnyIn(words, text) == \E k \in 1..Len(words) : Contains(text, words[k])

\* the loop over tool_keywords.items()
RECURSIVE KeywordTools(_, _)
KeywordTools(query_lower, k) ==
    IF k > Len(tool_keywords) THEN <<>>
    ELSE (IF AnyIn(tool_keywords[k].keywords, query_lower)
          THEN <<tool_keywords[k].tool>>
          ELSE <<>>) \o KeywordTools(query_lower, k + 1)

\* search_query: the query with the stripped phrases removed and trimmed
SearchQuery(query) ==
    Strip(Replace(Replace(Replace(query, "search for", ""), "find", ""),
                  "look for", ""))

IsSearchQuery(query) == AnyIn(search_words, Lower(query))

\* the search tool appended instead of inserted at the front
WithSearchToolAppended(query, tools) ==
    IF IsSearchQuery(query) /\ SearchQuery(query) # ""
    THEN tools \o <<"search_profile_content">>
    ELSE tools

\* tools.insert(0, "search_profile_content") under its two conditions
WithSearchTool(query, tools) ==
    IF IsSearchQuery(query) /\ SearchQuery(query) # ""
    THEN <<"search_profile_content">> \o tools
    ELSE tools

\* the list before the final slice
CandidateTools(query) ==
    LET matched == KeywordTools(Lower(query), 1)
    IN  WithSearchTool(query, IF matched = <<>> THEN default_tools ELSE matched)

\* the ranking without its final slice
DetermineRelevantToolsUncapped(query) == CandidateTools(query)

DetermineRelevantTools(query) == Prefix(CandidateTools(query), MaxTools)

-----------------------------------------------------------------------------
(* Inputs of the ranking: queries made of at most MaxWords phrases.        *)

MaxWords == 2

Phrases ==
    { "find", "Find ", "search", "search for ", "look for ", "about ", " ",
      "his work", "research papers", "career history", "linkedin contact",
      "hello" }

RECURSIVE QueriesOf(_)
QueriesOf(n) ==
    IF n = 0 THEN {""}
    ELSE LET shorter == QueriesOf(n - 1)
         IN  shorter \cup {q \o w : q \in shorter, w \in Phrases}

Queries == QueriesOf(MaxWords)
-----------------------------------------------------------------------------
(* Provider: configuration.                                                *)

\* self.profile_urls, in dict order
profile_urls ==
    << [section |-> "overview",
        url |-> "https://sites.google.com/view/haris-gulzar/home"],
       [section |-> "experience",
        url |-> "https://sites.google.com/view/haris-gulzar/experience"],
       [section |-> "publications",
        url |-> "https://sites.google.com/view/haris-gulzar/publications"],
       [section |-> "career_timeline",
        url |-> "https://sites.google.com/view/haris-gulzar/career-timeline"] >>

Sections == {profile_urls[k].section : k \in 1..Len(profile_urls)}

ProfileUrl(section) ==
    profile_urls[CHOOSE k \in 1..Len(profile_urls) :
                    profile_urls[k].section = section].url

\* self.social_urls, in dict order
social_urls ==
    << [platform |-> "linkedin", url |-> "https://www.linkedin.com/in/haris-gulzar/"],
       [platform |-> "instagram", url |-> "https://www.instagram.com/japanviaharis/"],
       [platform |-> "facebook", url |-> "https://www.facebook.com/mharisgulzar/"],
       [platform |-> "youtube", url |-> "https://www.youtube.com/@japanviaharis"] >>

Platforms == {social_urls[k].platform : k \in 1..Len(social_urls)}

SocialUrl(platform) ==
    social_urls[CHOOSE k \in 1..Len(social_urls) :
                   social_urls[k].platform = platform].url

\* the names handle_list_tools publishes, in order
ToolCatalog ==
    << "get_profile_overview", "get_experience", "get_publications",
       "get_career_timeline", "get_social_links", "search_profile_content" >>

CatalogNames == {ToolCatalog[k] : k \in 1..Len(ToolCatalog)}

\* U+2022, the bullet of the list lines (a TLA+ string holds ASCII only)
Bullet == "#"

-----------------------------------------------------------------------------
(* Provider: content extraction.                                           *)
(* A fetch outcome is [kind |-> "error", error |-> str(e)] when the request, *)
(* raise_for_status or the parse raised, and otherwise                      *)
(* [kind |-> "ok", elements |-> per selector the stripped texts of the      *)
(* elements it selects, text |-> get_text of the whole document].           *)

selectors == << "div[data-dtype=\"d\"]", ".zfr3Q", ".uGdb3", "p", "h1", "h2", "h3", "li" >>

\* len(text) > 10
MinFragmentLen == 10

\* content_parts[:20]
MaxFragments == 20

\* soup.get_text(...)[:2000]
MaxFallbackChars == 2000

\* the first selector with at least one element, 0 when there is none
WinningSelector(doc) ==
    IF \E k \in 1..Len(selectors) : doc.elements[k] # <<>>
    THEN CHOOSE k \in 1..Len(selectors) :
            /\ doc.elements[k] # <<>>
            /\ \A j \in 1..(k - 1) : doc.elements[j] = <<>>
    ELSE 0

\* the threshold taken as the shortest kept length
KeepFragmentFromThreshold(text) == text # "" /\ Len(text) >= MinFragmentLen

\* if text and len(text) > 10
KeepFragment(text) == text # "" /\ Len(text) > MinFragmentLen

\* content_parts after the loop over the selectors
ContentParts(doc) ==
    LET k == WinningSelector(doc)
    IN  IF k = 0 THEN <<>> ELSE SelectSeq(doc.elements[k], KeepFragment)

\* every fragment joined
JoinedPartsUncapped(parts) == parts

\* the fragments that are joined
JoinedParts(parts) == Prefix(parts, MaxFragments)

\* the fallback return
FallbackText(doc) == Prefix(doc.text, MaxFallbackChars)

\* the except branch
FetchErrorText(url, error) ==
    "Unable to fetch content from " \o url \o ". Error: " \o error

FetchAndParseContent(url, outcome) ==
    IF outcome.kind = "error"
    THEN FetchErrorText(url, outcome.error)
    ELSE LET content_parts == ContentParts(outcome)
         IN  IF content_parts # <<>>
             THEN Join(JoinedParts(content_parts), "\n\n")
             ELSE FallbackText(outcome)

-----------------------------------------------------------------------------
(* Provider: the capabilities. A CallToolResult is its sequence of text    *)
(* blocks.                                                                 *)

SectionResult(heading, section, outcome) ==
    << heading \o ":\n\n" \o FetchAndParseContent(ProfileUrl(section), outcome)
           \o "\n\nSource: " \o ProfileUrl(section) >>

GetProfileOverview(outcome) == SectionResult("Profile Overview", "overview", outcome)

GetExperience(outcome) == SectionResult("Work Experience", "experience", outcome)

GetPublications(outcome) ==
    SectionResult("Publications and Conferences", "publications", outcome)

GetCareerTimeline(outcome) ==
    SectionResult("Career Timeline", "career_timeline", outcome)

\* the lines of the "all" listing from entry k on
RECURSIVE SocialLines(_)
SocialLines(k) ==
    IF k > Len(social_urls) THEN ""
    ELSE Bullet \o " " \o Title(social_urls[k].platform) \o ": " \o social_urls[k].url
             \o "\n" \o SocialLines(k + 1)

\* ', '.join(self.social_urls.keys())
PlatformNames == Join([k \in 1..Len(social_urls) |-> social_urls[k].platform], ", ")

\* the label without .title()
PlatformTextUntitled(platform) == platform \o ": " \o SocialUrl(platform)

\* the text for one configured platform
PlatformText(platform) == Title(platform) \o ": " \o SocialUrl(platform)

GetSocialLinks(platform) ==
    << IF platform = "all"
       THEN "Social Media Profiles:\n\n" \o SocialLines(1)
       ELSE IF platform \in Platforms
       THEN PlatformText(platform)
       ELSE "Platform '" \o platform \o "' not found. Available platforms: "
                \o PlatformNames >>

\* len(p.strip()) > 20
MinParagraphLen == 20

\* relevant_paragraphs[:3]
MaxMatches == 3

\* match[:200]
MaxMatchChars == 200

\* the paragraph test without its length condition
RelevantParagraphAnyLength(search_query, p) == Contains(Lower(p), search_query)

\* a paragraph that enters relevant_paragraphs
RelevantParagraph(search_query, p) ==
    Contains(Lower(p), search_query) /\ Len(Strip(p)) > MinParagraphLen

RelevantParagraphs(search_query, content) ==
    LET keep(p) == RelevantParagraph(search_query, p)
    IN  SelectSeq(Split(content, "\n\n"), keep)

\* the results list: the entries appended from source k on
RECURSIVE SearchResults(_, _, _)
SearchResults(search_query, contents, k) ==
    IF k > Len(profile_urls) THEN <<>>
    ELSE LET section == profile_urls[k].section
             content == contents[section]
             relevant == IF Contains(Lower(content), search_query)
                         THEN RelevantParagraphs(search_query, content)
                         ELSE <<>>
         IN  (IF relevant # <<>>
              THEN << [section |-> Title(section), url |-> profile_urls[k].url,
                       matches |-> Prefix(relevant, MaxMatches)] >>
              ELSE <<>>) \o SearchResults(search_query, contents, k + 1)

RECURSIVE MatchLines(_)
MatchLines(matches) ==
    IF matches = <<>> THEN ""
    ELSE Bullet \o " " \o Prefix(Head(matches), MaxMatchChars) \o "...\n"
             \o MatchLines(Tail(matches))

\* the heading of one source in the result text
SectionHeading(title) == "**" \o title \o ":**\n"

RECURSIVE ResultBlocks(_)
ResultBlocks(results) ==
    IF results = <<>> THEN ""
    ELSE SectionHeading(Head(results).section) \o MatchLines(Head(results).matches)
             \o "Source: " \o Head(results).url \o "\n\n" \o ResultBlocks(Tail(results))

NoResultsText(query) == "No results found for '" \o query \o "' in the profile content."

\* contents: per section the text _fetch_and_parse_content returned
SearchProfileContent(query, contents) ==
    LET results == SearchResults(Lower(query), contents, 1)
    IN  << IF results # <<>>
           THEN "Search results for '" \o query \o "':\n\n" \o ResultBlocks(results)
           ELSE NoResultsText(query) >>

-----------------------------------------------------------------------------
(* Provider: dispatch.                                                     *)

\* bool(arguments) of an Optional[dict]
HasArguments(arguments) == arguments # None /\ DOMAIN arguments[1] # {}

\* arguments.get("platform", "all") if arguments else "all"
PlatformArgument(arguments) ==
    IF HasArguments(arguments) /\ "platform" \in DOMAIN arguments[1]
    THEN arguments[1]["platform"]
    ELSE "all"

\* not arguments or "query" not in arguments
MissingQuery(arguments) ==
    ~HasArguments(arguments) \/ "query" \notin DOMAIN arguments[1]

\* the message without the name
UnknownToolErrorUnnamed(name) == "Unknown tool"

UnknownToolError(name) == "Unknown tool: " \o name

MissingQueryError == "Query parameter is required for search"

\* the sections whose source a call fetches
FetchedSections(name, arguments) ==
    CASE name = "get_profile_overview" -> {"overview"}
      [] name = "get_experience" -> {"experience"}
      [] name = "get_publications" -> {"publications"}
      [] name = "get_career_timeline" -> {"career_timeline"}
      [] name = "search_profile_content" /\ ~MissingQuery(arguments) -> Sections
      [] OTHER -> {}

\* the text each fetched source is reduced to
ExtractedContents(name, arguments, outcomes) ==
    [s \in FetchedSections(name, arguments) |->
        FetchAndParseContent(ProfileUrl(s), outcomes[s])]

\* the try block: [raised |-> FALSE, result |-> ...] or [raised |-> TRUE, error |-> str(e)]
DispatchTool(name, arguments, outcomes) ==
    CASE name = "get_profile_overview" ->
            [raised |-> FALSE, result |-> GetProfileOverview(outcomes["overview"])]
      [] name = "get_experience" ->
            [raised |-> FALSE, result |-> GetExperience(outcomes["experience"])]
      [] name = "get_publications" ->
            [raised |-> FALSE, result |-> GetPublications(outcomes["publications"])]
      [] name = "get_career_timeline" ->
            [raised |-> FALSE, result |-> GetCareerTimeline(outcomes["career_timeline"])]
      [] name = "get_social_links" ->
            [raised |-> FALSE, result |-> GetSocialLinks(PlatformArgument(arguments))]
      [] name = "search_profile_content" ->
            IF MissingQuery(arguments)
            THEN [raised |-> TRUE, error |-> MissingQueryError]
            ELSE [raised |-> FALSE,
                  result |-> SearchProfileContent(arguments[1]["query"],
                                 ExtractedContents(name, arguments, outcomes))]
      [] OTHER -> [raised |-> TRUE, error |-> UnknownToolError(name)]

\* the except branch of handle_call_tool
ErrorResult(error) == << "Error: " \o error >>

HandleCallTool(name, arguments, outcomes) ==
    LET r == DispatchTool(name, arguments, outcomes)
    IN  IF r.raised THEN ErrorResult(r.error) ELSE r.result
-----------------------------------------------------------------------------
(* Inputs of the extraction: fetch outcomes.                               *)

\* a document may hold one element more than this
MaxElements == 21

RECURSIVE Repeat(_, _)
Repeat(c, n) ==
    IF n <= 0 THEN ""
    ELSE IF n = 1 THEN c
    ELSE Repeat(c, n \div 2) \o Repeat(c, n - n \div 2)

Digits == "0123456789"

Numeral(i) ==
    (IF i >= 10 THEN CharAt(Digits, ((i \div 10) % 10) + 1) ELSE "")
        \o CharAt(Digits, (i % 10) + 1)

\* a fragment long enough to be kept
FragmentText(i) == "paragraph " \o Numeral(i) \o " of the page"

\* element texts around the filter's threshold: 0, 4, 9, 10 and 11 characters
ShortTexts == {"", "Home", "123456789", "1234567890", "12345678901"}

\* a short first element, alone or followed by one long fragment
ShortLists ==
    { <<t>> \o [i \in 1..n |-> FragmentText(i)] : t \in ShortTexts, n \in 0..1 }

\* 1 to MaxElements long fragments
LongLists == { [i \in 1..n |-> FragmentText(i)] : n \in 1..MaxElements }

\* text outside every selected element
ExtraTexts ==
    {"", "footer", Repeat("z", MaxFallbackChars - 1), Repeat("z", MaxFallbackChars + 1)}

LaterElements == {<<>>, <<"text of an element of a later selector">>}

\* get_text(separator="\n", strip=True) of the whole document
DocumentText(pieces) ==
    LET nonEmpty(t) == t # ""
    IN  Join(SelectSeq(pieces, nonEmpty), "\n")

\* a page whose first matching selector is k (0: none matches)
Page(k, elems, later, extra) ==
    [kind |-> "ok",
     elements |-> [j \in 1..Len(selectors) |->
                      IF k # 0 /\ j = k THEN elems
                      ELSE IF k # 0 /\ j = Len(selectors) /\ j # k THEN later
                      ELSE <<>>],
     text |-> DocumentText((IF k # 0 THEN elems \o later ELSE <<>>) \o <<extra>>)]

FetchError(error) == [kind |-> "error", error |-> error]

FetchErrors ==
    {FetchError(e) : e \in {"", "Connection refused", "Client error '404 Not Found'"}}

FetchOutcomes ==
    FetchErrors
    \cup {Page(0, <<>>, <<>>, extra) : extra \in ExtraTexts}
    \cup {Page(k, elems, later, extra) :
            k \in {1, 4}, elems \in ShortLists, later \in LaterElements,
            extra \in ExtraTexts}
    \cup {Page(4, elems, <<>>, "") : elems \in LongLists}

Urls == {profile_urls[k].url : k \in 1..Len(profile_urls)}

(* Extraction as a state machine: one call of _fetch_and_parse_content.    *)

IdleRest ==
    /\ pc = "off" /\ session = FALSE /\ user_input = "" /\ raw_input = ""
    /\ handled_as = "none" /\ relevant_tools = <<>> /\ context_parts = <<>>
    /\ context_data = "" /\ calls = <<>> /\ attempts = <<>>
    /\ ollama_reply = None /\ ollama_response = None /\ hf_response = None /\ response = None

IdleRpc ==
    /\ rpc_state = "idle" /\ rpc_name = "" /\ rpc_args = None
    /\ rpc_contents = <<>> /\ rpc_result = None

IdleFetch ==
    /\ fetch_url = "" /\ fetch_outcome = FetchError("") /\ fetch_parts = <<>>
    /\ fetch_result = None

ExtractInit ==
    /\ IdleRest /\ IdleRpc
    /\ fetch_url \in Urls
    /\ fetch_outcome \in FetchOutcomes
    /\ fetch_parts = <<>>
    /\ fetch_result = None

Extract ==
    /\ fetch_result = None
    /\ fetch_parts' = IF fetch_outcome.kind = "ok"
                      THEN ContentParts(fetch_outcome) ELSE <<>>
    /\ fetch_result' = Some(FetchAndParseContent(fetch_url, fetch_outcome))
    /\ UNCHANGED <<fetch_url, fetch_outcome>>
    /\ UNCHANGED clientVars
    /\ UNCHANGED rpcVars

ExtractNext == Extract

ExtractSpec == ExtractInit /\ [][ExtractNext]_vars

-----------------------------------------------------------------------------
(* The provider as a state machine: an RPC peer sends an invoke request,   *)
(* handle_call_tool answers it.                                            *)

\* a page whose text is its "p" elements
ParagraphPage(elems) == Page(4, elems, <<>>, "")

\* what a fetch may produce while a request is handled
ProviderOutcomes ==
    { FetchError("Connection refused"),
      ParagraphPage(<<"Haris Gulzar works on speech recognition research in Tokyo.">>),
      ParagraphPage(<<"Tokyo based.">>),
      Page(0, <<>>, <<>>, "Tokyo") }

SearchTexts == {"Tokyo", "speech", "zebra", "Unable", ""}

RequestNames == CatalogNames \cup {"get_everything", ""}

PlatformValues == Platforms \cup {"all", "unknown_xyz"}

\* Optional[dict]: None, {}, {"platform": p}, {"query": q}
RequestArguments ==
    {None, Some(<<>>)}
    \cup {Some([platform |-> p]) : p \in PlatformValues}
    \cup {Some([query |-> q]) : q \in SearchTexts}

ServerInit == IdleRest /\ IdleRpc /\ IdleFetch

\* an invoke request arrives
ReceiveCall ==
    /\ rpc_state \in {"idle", "replied"}
    /\ \E name \in RequestNames, arguments \in RequestArguments :
          /\ rpc_name' = name
          /\ rpc_args' = arguments
    /\ rpc_state' = "pending"
    /\ rpc_contents' = <<>>
    /\ rpc_result' = None
    /\ UNCHANGED clientVars
    /\ UNCHANGED fetchVars

\* handle_call_tool runs to its return
HandleCall ==
    /\ rpc_state = "pending"
    /\ \E outcomes \in [FetchedSections(rpc_name, rpc_args) -> ProviderOutcomes] :
          /\ rpc_contents' = ExtractedContents(rpc_name, rpc_args, outcomes)
          /\ rpc_result' = Some(HandleCallTool(rpc_name, rpc_args, outcomes))
    /\ rpc_state' = "replied"
    /\ UNCHANGED <<rpc_name, rpc_args>>
    /\ UNCHANGED clientVars
    /\ UNCHANGED fetchVars

ServerNext == ReceiveCall \/ HandleCall

ServerSpec == ServerInit /\ [][ServerNext]_vars

-----------------------------------------------------------------------------
(* Client: call_tool.                                                      *)
(* A transport reply is [kind |-> "raised", error |-> str(e)] when          *)
(* session.call_tool raised, else [kind |-> "result", content |-> blocks].  *)

\* arguments or {}
SentArguments(arguments) == IF HasArguments(arguments) THEN arguments ELSE Some(<<>>)

\* the exception's message returned without the error prefix
CallToolTextUnmarked(reply) ==
    IF reply.kind = "raised"
    THEN reply.error
    ELSE Join(reply.content, "\n")

\* the str call_tool returns
CallToolText(reply) ==
    IF reply.kind = "raised"
    THEN "Error: " \o reply.error
    ELSE Join(reply.content, "\n")

\* the arguments interactive_chat hands to call_tool for a selected tool
TurnArguments(tool_name, query) == None

\* a section without the heading that names its capability
ContextSectionUnheaded(tool_name, tool_result) == tool_result

\* f"=== {tool_name} ===\n{tool_result}"
ContextSection(tool_name, tool_result) == "=== " \o tool_name \o " ===\n" \o tool_result

-----------------------------------------------------------------------------
(* Client: the answer backends.                                            *)
(* An HTTP reply is [kind |-> "exception"] (no connection, timeout) or      *)
(* [kind |-> "response", status |-> code, body |-> JSON]; a JSON value is   *)
(* [json |-> "object", fields |-> dict of Optional[str]],                   *)
(* [json |-> "array", items |-> sequence] or [json |-> "invalid"].          *)

OllamaPrompt(query, context) ==
    "Based on the following information about Haris Gulzar, please answer the user's question:\n\nContext Information:\n"
        \o context \o "\n\nUser Question: " \o query
        \o "\n\nPlease provide a comprehensive and helpful answer based on the available information."

\* context[:1000]
MaxRemoteContext == 1000

HuggingfacePrompt(query, context) ==
    "Context: " \o Prefix(context, MaxRemoteContext) \o "\n\nQuestion: " \o query
        \o "\n\nAnswer:"

StaticNote ==
    "I've provided the relevant information above. For more detailed analysis, please consider setting up a local LLM (like Ollama) or using a cloud LLM service."

FormatBasicResponse(query, context) ==
    "Based on the available information about Haris Gulzar:\n\n" \o context
        \o "\n\nYour question: \"" \o query \o "\"\n\n" \o StaticNote

\* d.get(key, "")
GetOrEmpty(fields, key) == IF key \in DOMAIN fields THEN fields[key] ELSE Some("")

\* the answer read from a field the endpoint does not send
QueryOllamaWrongField(query, context, reply) ==
    IF reply.kind = "exception" THEN None
    ELSE IF reply.status # 200 THEN None
    ELSE IF reply.body.json # "object" THEN None
    ELSE GetOrEmpty(reply.body.fields, "text")

\* Optional[str] returned by _query_ollama
QueryOllama(query, context, reply) ==
    IF reply.kind = "exception" THEN None
    ELSE IF reply.status # 200 THEN None
    ELSE IF reply.body.json # "object" THEN None
    ELSE GetOrEmpty(reply.body.fields, "response")

\* Optional[str] returned by _query_huggingface
QueryHuggingface(query, context, reply) ==
    LET prompt == HuggingfacePrompt(query, context)
    IN  IF reply.kind = "exception" THEN None
        ELSE IF reply.status # 200 THEN None
        ELSE IF reply.body.json # "array" THEN None
        ELSE IF Len(reply.body.items) = 0 THEN None
        ELSE IF reply.body.items[1].json # "object" THEN None
        ELSE LET text == GetOrEmpty(reply.body.items[1].fields, "generated_text")
             IN  IF text = None THEN None
                 ELSE Some(Strip(Replace(text[1], prompt, "")))

\* a test for None in place of the truth test
YieldsNotNone(opt) == opt # None

\* a backend's answer never taken
YieldsNever(opt) == FALSE

\* if ollama_response: / if hf_response:
Yields(opt) == Truthy(opt)

-----------------------------------------------------------------------------
(* Inputs of the session.                                                  *)

JsonObject(fields) == [json |-> "object", fields |-> fields]

JsonArray(items) == [json |-> "array", items |-> items]

HttpResponse(status, body) == [kind |-> "response", status |-> status, body |-> body]

OllamaReplies ==
    { [kind |-> "exception"],
      HttpResponse(500, JsonObject(<<>>)),
      HttpResponse(200, [json |-> "invalid"]),
      HttpResponse(200, JsonArray(<<>>)),
      HttpResponse(200, JsonObject(<<>>)),
      HttpResponse(200, JsonObject([response |-> None])),
      HttpResponse(200, JsonObject([response |-> Some("")])),
      HttpResponse(200, JsonObject([response |-> Some("Haris is a speech researcher.")])) }

HuggingfaceReplies(prompt) ==
    { [kind |-> "exception"],
      HttpResponse(503, JsonObject([error |-> Some("Model is loading")])),
      HttpResponse(200, [json |-> "invalid"]),
      HttpResponse(200, JsonObject([error |-> Some("rate limit")])),
      HttpResponse(200, JsonArray(<<>>)),
      HttpResponse(200, JsonArray(<<JsonObject(<<>>)>>)),
      HttpResponse(200, JsonArray(<<JsonObject([generated_text |-> Some(prompt)])>>)),
      HttpResponse(200, JsonArray(<<JsonObject(
          [generated_text |-> Some(prompt \o " He works in Tokyo.")])>>)) }

\* what a source fetch may produce while the session runs
SessionOutcomes ==
    { FetchError("Connection refused"),
      ParagraphPage(<<"Haris Gulzar works on speech recognition research in Tokyo.">>) }

\* what session.call_tool may raise
TransportErrors == {"Connection closed"}

CommandLines ==
    { "/quit", "/exit", "quit", "exit", "/QUIT", "  /Exit ", "Quit", "/help", "/HELP ",
      "/tools", "/Tools", "", "   " }

QueryLines ==
    { "find", "find information about internships", "Find internships",
      "search", "search for publications", "Tell me about his research papers",
      "hello", "linkedin contact", "when did his career history start",
      "/unknown", "help", "quit now", "look for " }

InputLines == CommandLines \cup QueryLines

-----------------------------------------------------------------------------
(* The client session: main() and interactive_chat().                      *)

Init ==
    /\ pc = "main" /\ session = FALSE /\ user_input = "" /\ raw_input = ""
    /\ handled_as = "none" /\ relevant_tools = <<>> /\ context_parts = <<>>
    /\ context_data = "" /\ calls = <<>> /\ attempts = <<>>
    /\ ollama_reply = None /\ ollama_response = None /\ hf_response = None /\ response = None
    /\ IdleRpc /\ IdleFetch

turnVars == <<relevant_tools, context_parts, context_data, calls, attempts,
              ollama_reply, ollama_response, hf_response, response>>

\* only the commands with a slash
SlashQuitCommands == {"/quit", "/exit"}

\* the inputs that end the loop
QuitCommands == {"/quit", "/exit", "quit", "exit"}

\* connect_to_server returned True
ConnectOk ==
    /\ pc = "main"
    /\ pc' = "input"
    /\ session' = TRUE
    /\ UNCHANGED <<user_input, raw_input, handled_as>>
    /\ UNCHANGED turnVars
    /\ UNCHANGED rpcVars /\ UNCHANGED fetchVars

\* connect_to_server returned False: main() returns before interactive_chat
ConnectFailed ==
    /\ pc = "main"
    /\ pc' = "not_connected"
    /\ UNCHANGED <<session, user_input, raw_input, handled_as>>
    /\ UNCHANGED turnVars
    /\ UNCHANGED rpcVars /\ UNCHANGED fetchVars

\* a line is read and stripped; branch tells which arm takes it
ReadLine(line, branch, next) ==
    /\ raw_input' = line
    /\ user_input' = Strip(line)
    /\ handled_as' = branch
    /\ pc' = next
    /\ UNCHANGED session
    /\ UNCHANGED rpcVars /\ UNCHANGED fetchVars

Quit ==
    /\ pc = "input"
    /\ \E line \in InputLines :
        /\ Lower(Strip(line)) \in QuitCommands
        /\ ReadLine(line, "quit", "goodbye")
        /\ UNCHANGED turnVars

Help ==
    /\ pc = "input"
    /\ \E line \in InputLines :
        /\ Lower(Strip(line)) \notin QuitCommands
        /\ Lower(Strip(line)) = "/help"
        /\ ReadLine(line, "help", "input")
        /\ UNCHANGED turnVars

\* get_available_tools; when it raises, the loop's except arm prints and goes on
ListTools ==
    /\ pc = "input"
    /\ \E line \in InputLines :
        /\ Lower(Strip(line)) \notin QuitCommands
        /\ Lower(Strip(line)) # "/help"
        /\ Lower(Strip(line)) = "/tools"
        /\ ReadLine(line, "tools", "input")
        /\ UNCHANGED turnVars

EmptyInput ==
    /\ pc = "input"
    /\ \E line \in InputLines :
        /\ Lower(Strip(line)) \notin QuitCommands \cup {"/help", "/tools"}
        /\ Strip(line) = ""
        /\ ReadLine(line, "empty", "input")
        /\ UNCHANGED turnVars

\* anything else starts a turn with the relevance ranking
StartQuery ==
    /\ pc = "input"
    /\ \E line \in InputLines :
        /\ Lower(Strip(line)) \notin QuitCommands \cup {"/help", "/tools"}
        /\ Strip(line) # ""
        /\ ReadLine(line, "query", "gather")
        /\ relevant_tools' = DetermineRelevantTools(Strip(line))
        /\ context_parts' = <<>>
        /\ calls' = <<>>
        /\ UNCHANGED <<context_data, attempts, ollama_reply, ollama_response, hf_response, response>>

\* the replies session.call_tool can give for a request
ToolReplies(tool_name, sent) ==
    {[kind |-> "raised", error |-> e] : e \in TransportErrors}
    \cup {[kind |-> "result", content |-> HandleCallTool(tool_name, sent, outcomes)] :
            outcomes \in [FetchedSections(tool_name, sent) -> SessionOutcomes]}

\* one pass of the loop over relevant_tools
CallNextTool ==
    /\ pc = "gather"
    /\ Len(context_parts) < Len(relevant_tools)
    /\ LET tool_name == relevant_tools[Len(context_parts) + 1]
           sent == SentArguments(TurnArguments(tool_name, user_input))
       IN  \E reply \in ToolReplies(tool_name, sent) :
              /\ context_parts' =
                    Append(context_parts, ContextSection(tool_name, CallToolText(reply)))
              /\ calls' = Append(calls, [name |-> tool_name, arguments |-> sent,
                                         text |-> CallToolText(reply)])
    /\ UNCHANGED <<pc, session, user_input, raw_input, handled_as, relevant_tools,
                   context_data, attempts, ollama_reply, ollama_response, hf_response, response>>
    /\ UNCHANGED rpcVars /\ UNCHANGED fetchVars

\* the context is joined and query_llm_with_context is entered
AssembleContext ==
    /\ pc = "gather"
    /\ Len(context_parts) = Len(relevant_tools)
    /\ context_data' = Join(context_parts, "\n\n")
    /\ pc' = "ollama"
    /\ UNCHANGED <<session, user_input, raw_input, handled_as, relevant_tools,
                   context_parts, calls, attempts, ollama_reply, ollama_response, hf_response,
                   response>>
    /\ UNCHANGED rpcVars /\ UNCHANGED fetchVars

\* the first try block of query_llm_with_context
AttemptOllama ==
    /\ pc = "ollama"
    /\ \E reply \in OllamaReplies :
          LET r == QueryOllama(user_input, context_data, reply)
          IN  /\ ollama_reply' = Some(reply)
              /\ ollama_response' = r
              /\ IF Yields(r)
                 THEN response' = r /\ pc' = "respond"
                 ELSE response' = response /\ pc' = "huggingface"
    /\ attempts' = Append(attempts, "local")
    /\ UNCHANGED <<session, user_input, raw_input, handled_as, relevant_tools,
                   context_parts, context_data, calls, hf_response>>
    /\ UNCHANGED rpcVars /\ UNCHANGED fetchVars

\* the second try block
AttemptHuggingface ==
    /\ pc = "huggingface"
    /\ \E reply \in HuggingfaceReplies(HuggingfacePrompt(user_input, context_data)) :
          LET r == QueryHuggingface(user_input, context_data, reply)
          IN  /\ hf_response' = r
              /\ IF Yields(r)
                 THEN response' = r /\ pc' = "respond"
                 ELSE response' = response /\ pc' = "format"
    /\ attempts' = Append(attempts, "remote")
    /\ UNCHANGED <<session, user_input, raw_input, handled_as, relevant_tools,
                   context_parts, context_data, calls, ollama_reply, ollama_response>>
    /\ UNCHANGED rpcVars /\ UNCHANGED fetchVars

\* the final return
FormatFallback ==
    /\ pc = "format"
    /\ response' = Some(FormatBasicResponse(user_input, context_data))
    /\ attempts' = Append(attempts, "formatter")
    /\ pc' = "respond"
    /\ UNCHANGED <<session, user_input, raw_input, handled_as, relevant_tools,
                   context_parts, context_data, calls, ollama_reply, ollama_response, hf_response>>
    /\ UNCHANGED rpcVars /\ UNCHANGED fetchVars

\* the answer is printed and the loop goes back to input(); the turn's
\* locals are dead from here on
PrintResponse ==
    /\ pc = "respond"
    /\ pc' = "input"
    /\ relevant_tools' = <<>> /\ context_parts' = <<>> /\ context_data' = ""
    /\ calls' = <<>> /\ attempts' = <<>>
    /\ ollama_reply' = None /\ ollama_response' = None /\ hf_response' = None /\ response' = None
    /\ UNCHANGED <<session, user_input, raw_input, handled_as>>
    /\ UNCHANGED rpcVars /\ UNCHANGED fetchVars

\* KeyboardInterrupt at input() or at an await of the turn: break
Interrupt ==
    /\ pc \in {"input", "gather", "ollama", "huggingface"}
    /\ pc' = "goodbye"
    /\ handled_as' = "interrupt"
    /\ UNCHANGED <<session, user_input, raw_input>>
    /\ UNCHANGED turnVars
    /\ UNCHANGED rpcVars /\ UNCHANGED fetchVars

\* main() prints its farewell and returns
Goodbye ==
    /\ pc = "goodbye"
    /\ pc' = "done"
    /\ UNCHANGED <<session, user_input, raw_input, handled_as>>
    /\ UNCHANGED turnVars
    /\ UNCHANGED rpcVars /\ UNCHANGED fetchVars

Next ==
    \/ ConnectOk \/ ConnectFailed
    \/ Quit \/ Help \/ ListTools \/ EmptyInput \/ StartQuery
    \/ CallNextTool \/ AssembleContext
    \/ AttemptOllama \/ AttemptHuggingface \/ FormatFallback \/ PrintResponse
    \/ Interrupt \/ Goodbye

Spec == Init /\ [][Next]_vars

-----------------------------------------------------------------------------
(* The ranking as a state machine: one call of _determine_relevant_tools.  *)

RankInit ==
    /\ pc = "rank" /\ session = FALSE /\ raw_input = "" /\ handled_as = "none"
    /\ user_input \in Queries
    /\ relevant_tools = <<>> /\ context_parts = <<>> /\ context_data = ""
    /\ calls = <<>> /\ attempts = <<>>
    /\ ollama_reply = None /\ ollama_response = None /\ hf_response = None /\ response = None
    /\ IdleRpc /\ IdleFetch

Rank ==
    /\ pc = "rank"
    /\ relevant_tools' = DetermineRelevantTools(user_input)
    /\ pc' = "ranked"
    /\ UNCHANGED <<session, user_input, raw_input, handled_as, context_parts,
                   context_data, calls, attempts, ollama_reply, ollama_response, hf_response,
                   response>>
    /\ UNCHANGED rpcVars /\ UNCHANGED fetchVars

RankNext == Rank

RankSpec == RankInit /\ [][RankNext]_vars

-----------------------------------------------------------------------------
(* Properties.                                                             *)

Range(seq) == {seq[i] : i \in 1..Len(seq)}

\* C1: for every query the ranking returns at least one and at most three
\* capability names, whether or not a keyword matched and whether or not the
\* search capability was prepended.
C1_SelectedBetweenOneAndThree ==
    pc = "ranked" => Len(relevant_tools) >= 1 /\ Len(relevant_tools) <= 3

\* a ranked query whose candidate list was longer than the cap, search included
C1_Witness ==
    /\ pc = "ranked"
    /\ Len(CandidateTools(user_input)) > 3
    /\ Len(relevant_tools) = 3
    /\ relevant_tools[1] = "search_profile_content"

BackendOrder == <<"local", "remote", "formatter">>

\* C2: query_llm_with_context always comes to its return with a non-absent
\* answer, whatever the two model backends reply; when neither of them yields an
\* answer the value returned is the formatter's text built from the whole
\* context, the original query and the static note.
C2_AnswerAlwaysReturned ==
    /\ pc = "ollama" => ENABLED AttemptOllama
    /\ pc = "huggingface" => ENABLED AttemptHuggingface
    /\ pc = "format" => ENABLED FormatFallback
    /\ pc = "respond" =>
          /\ response # None
          /\ response[1] # ""
          /\ (~Truthy(ollama_response) /\ ~Truthy(hf_response)) =>
                response = Some("Based on the available information about Haris Gulzar:\n\n"
                                \o context_data \o "\n\nYour question: \"" \o user_input
                                \o "\"\n\n" \o StaticNote)

\* the scenario of the specification: no backend yields, the formatter answers
C2_Witness ==
    /\ pc = "respond"
    /\ user_input = "find information about internships"
    /\ attempts = BackendOrder
    /\ ollama_response = None /\ hf_response = None
    /\ response = Some(FormatBasicResponse(user_input, context_data))

\* C3: within a turn the backends are tried in the order local, remote,
\* formatter, each at most once; the remote one only after the local one
\* yielded nothing, the formatter only after both yielded nothing, and none
\* after the backend whose answer is returned.
C3_FixedBackendOrder ==
    /\ Len(attempts) <= Len(BackendOrder)
    /\ attempts = SubSeq(BackendOrder, 1, Len(attempts))
    /\ "remote" \in Range(attempts) => ~Truthy(ollama_response)
    /\ "formatter" \in Range(attempts) =>
          ~Truthy(ollama_response) /\ ~Truthy(hf_response)
    /\ pc = "respond" =>
          IF Truthy(ollama_response)
          THEN attempts = <<"local">> /\ response = ollama_response
          ELSE IF Truthy(hf_response)
          THEN attempts = <<"local", "remote">> /\ response = hf_response
          ELSE attempts = BackendOrder

\* the remote backend answers after the local one returned an empty answer
C3_Witness ==
    /\ pc = "respond"
    /\ attempts = <<"local", "remote">>
    /\ ollama_response = Some("")
    /\ Truthy(hf_response)
    /\ response = hf_response

C5_SearchInvokedWithResidual ==
    \A i \in 1..Len(calls) :
        calls[i].name = "search_profile_content" =>
            /\ "query" \in DOMAIN calls[i].arguments[1]
            /\ calls[i].arguments[1]["query"] = SearchQuery(user_input)
            /\ calls[i].text # "Error: " \o MissingQueryError

\* a replied request for the links of one configured platform
SocialRequest(platform) ==
    /\ rpc_state = "replied"
    /\ rpc_name = "get_social_links"
    /\ rpc_args = Some([platform |-> platform])

\* C6 (as stated): get_social_links for a configured platform returns a text
\* payload that is exactly the configured URL string, with nothing before or
\* after it.
C6_ExactlyTheUrl ==
    \A p \in Platforms : SocialRequest(p) => rpc_result = Some(<<SocialUrl(p)>>)

\* the platform names as the reply labels them
PlatformLabel ==
    [linkedin |-> "Linkedin", instagram |-> "Instagram", facebook |-> "Facebook",
     youtube |-> "Youtube"]

\* C6 (amended): get_social_links for a configured platform returns one text
\* payload: the platform name with its first letter capitalised, then ": ",
\* then exactly the configured URL string, with nothing after it.
C6_LabelThenUrl ==
    \A p \in Platforms :
        SocialRequest(p) => rpc_result = Some(<<PlatformLabel[p] \o ": " \o SocialUrl(p)>>)

C6_Witness ==
    /\ SocialRequest("linkedin")
    /\ rpc_result = Some(<<"Linkedin: https://www.linkedin.com/in/haris-gulzar/">>)

\* a replied search request that carried a query
SearchRequest ==
    /\ rpc_state = "replied"
    /\ rpc_name = "search_profile_content"
    /\ ~MissingQuery(rpc_args)

\* the source's extracted text contains the lowercased query
TextContainsQuery(section) ==
    Contains(Lower(rpc_contents[section]), Lower(rpc_args[1]["query"]))

\* the source is listed in the reply
SourceInResult(section) ==
    Contains(rpc_result[1][1], "Source: " \o ProfileUrl(section) \o "\n")

NoResultsReply ==
    rpc_result = Some(<<"No results found for '" \o rpc_args[1]["query"]
                            \o "' in the profile content.">>)

\* C7 (as stated): every source whose extracted text contains the lowercased
\* query appears in the search result, and if no source's text contains it the
\* result is exactly the "no results" message.
C7_EveryMatchingSourceListed ==
    SearchRequest =>
        /\ \A s \in Sections : TextContainsQuery(s) => SourceInResult(s)
        /\ (\A s \in Sections : ~TextContainsQuery(s)) => NoResultsReply

\* the source has a blank-line separated paragraph that contains the
\* lowercased query and is longer than 20 characters once trimmed
ParagraphContainsQuery(section) ==
    LET paragraphs == Split(rpc_contents[section], "\n\n")
    IN  \E i \in 1..Len(paragraphs) :
            /\ Contains(Lower(paragraphs[i]), Lower(rpc_args[1]["query"]))
            /\ Len(Strip(paragraphs[i])) > 20

\* C7 (amended): a source appears in the search result exactly when one of the
\* blank-line separated paragraphs of its extracted text contains the
\* lowercased query and is longer than 20 characters after trimming; if no
\* source has such a paragraph (in particular if no source's text contains the
\* query) the result is exactly the "no results" message.
C7_SourcesWithLongMatchingParagraph ==
    SearchRequest =>
        /\ \A s \in Sections : ParagraphContainsQuery(s) <=> SourceInResult(s)
        /\ (\A s \in Sections : ~ParagraphContainsQuery(s)) => NoResultsReply
        /\ (\A s \in Sections : ~TextContainsQuery(s)) => NoResultsReply

\* one source is listed, another contains the query only in a short paragraph
C7_Witness ==
    /\ SearchRequest
    /\ \E s \in Sections : ParagraphContainsQuery(s) /\ SourceInResult(s)
    /\ \E s \in Sections :
          TextContainsQuery(s) /\ ~ParagraphContainsQuery(s) /\ ~SourceInResult(s)

\* the call of _fetch_and_parse_content has returned
Extracted == fetch_result # None

\* the number of blank-line separated fragments of the returned text
FragmentCount == Len(Split(fetch_result[1], "\n\n"))

\* the returned text is within the bound of the branch that produced it
WithinTruncationBound ==
    /\ (fetch_outcome.kind = "ok" /\ fetch_parts # <<>>) => FragmentCount <= 20
    /\ (fetch_outcome.kind = "ok" /\ fetch_parts = <<>>) => Len(fetch_result[1]) <= 2000

\* C8 (as stated): for every document and fetch outcome the returned string is
\* never empty and never exceeds its truncation bound (20 fragments from a
\* selector, 2000 characters under the fallback).
C8_NeverEmptyAndBounded ==
    Extracted => fetch_result[1] # "" /\ WithinTruncationBound

\* C8 (amended): the returned string never exceeds its truncation bound; it is
\* non-empty after a failed fetch and when a selector yields a kept fragment,
\* and under the whole-document fallback it is empty exactly when the document
\* has no text.
C8_BoundedAndEmptyOnlyForEmptyDocument ==
    Extracted =>
        /\ WithinTruncationBound
        /\ fetch_outcome.kind = "error" =>
              /\ fetch_result[1] # ""
              /\ Contains(fetch_result[1], fetch_url)
              /\ Contains(fetch_result[1], fetch_outcome.error)
        /\ (fetch_outcome.kind = "ok" /\ fetch_parts # <<>>) => fetch_result[1] # ""
        /\ (fetch_outcome.kind = "ok" /\ fetch_parts = <<>>) =>
              (fetch_result[1] = "" <=> fetch_outcome.text = "")

\* more kept fragments than the cap: exactly 20 are returned
C8_Witness ==
    /\ Extracted
    /\ fetch_outcome.kind = "ok"
    /\ Len(fetch_parts) > 20
    /\ FragmentCount = 20

\* C9: an invoke request for a name outside the catalog never raises out of
\* the handler: the reply is a normal result whose only content is the error
\* text naming the unknown capability; a search request without "query" is
\* answered the same way, with the missing-argument error text.
C9_UnknownNameReportedAsText ==
    /\ rpc_state = "replied" => rpc_result # None /\ Len(rpc_result[1]) = 1
    /\ (rpc_state = "replied" /\ rpc_name \notin CatalogNames) =>
          rpc_result = Some(<<"Error: Unknown tool: " \o rpc_name>>)
    /\ (rpc_state = "replied" /\ rpc_name = "search_profile_content"
            /\ (rpc_args = None \/ "query" \notin DOMAIN rpc_args[1])) =>
          rpc_result = Some(<<"Error: Query parameter is required for search">>)

C9_Witness ==
    /\ rpc_state = "replied"
    /\ rpc_name = "get_everything"
    /\ rpc_result = Some(<<"Error: Unknown tool: get_everything">>)

\* the arm that should take a stripped line when only the four slash commands
\* are commands, compared as written
LiteralBranch(line) ==
    IF line \in {"/quit", "/exit"} THEN "quit"
    ELSE IF line = "/help" THEN "help"
    ELSE IF line = "/tools" THEN "tools"
    ELSE IF line = "" THEN "empty"
    ELSE "query"

\* the arm that takes a stripped line when commands are compared in lower case
\* and quit and exit count without their slash
FoldedBranch(line) ==
    IF Lower(line) \in {"/quit", "/exit", "quit", "exit"} THEN "quit"
    ELSE IF Lower(line) = "/help" THEN "help"
    ELSE IF Lower(line) = "/tools" THEN "tools"
    ELSE IF line = "" THEN "empty"
    ELSE "query"

InputTaken == handled_as \in {"quit", "help", "tools", "empty", "query"}

SessionOver == pc \in {"goodbye", "done"}

\* C10 (as stated): the only inputs handled as commands are /tools, /help,
\* /quit and /exit (the last two end the session); every other non-empty line
\* is handled as a query and does not end the session.
C10_OnlySlashCommands ==
    InputTaken =>
        /\ handled_as = LiteralBranch(user_input)
        /\ SessionOver <=> handled_as = "quit"

\* C10 (amended): the inputs handled as commands are, compared in lower case
\* after trimming, /tools, /help, /quit, /exit, quit and exit (the last four
\* end the session); every other non-empty line is handled as a query: it goes
\* through ranking, capability invocation and answer generation and does not
\* end the session.
C10_CommandsFoldedAndBareQuit ==
    InputTaken =>
        /\ user_input = Strip(raw_input)
        /\ handled_as = FoldedBranch(user_input)
        /\ SessionOver <=> handled_as = "quit"
        /\ (handled_as = "query" /\ pc # "input") =>
              relevant_tools = DetermineRelevantTools(user_input)
        /\ (handled_as = "query" /\ pc \in {"ollama", "huggingface", "format", "respond"}) =>
              /\ Len(calls) = Len(relevant_tools)
              /\ \A i \in 1..Len(calls) : calls[i].name = relevant_tools[i]
        /\ (handled_as = "query" /\ pc = "respond") => response # None

\* a bare "Quit" is taken as the quit command and ends the session
C10_Witness ==
    /\ handled_as = "quit"
    /\ raw_input = "Quit"
    /\ user_input = "Quit"
    /\ pc = "goodbye"

\* the context of the turn has been assembled
ContextAssembled == pc \in {"ollama", "huggingface", "format", "respond"}

\* section i of the context is headed by the i-th selected capability
SectionHeadedBy(section, tool_name) ==
    Prefix(section, Len(tool_name) + 9) = "=== " \o tool_name \o " ===\n"

\* C11: in every turn the sections gathered so far follow the ranking's
\* selected list one for one and in its order (section i is headed by the
\* i-th selected capability, which is the i-th capability invoked), the
\* assembled context is exactly these sections, one per selected capability,
\* and every capability named is a name of the provider's catalog.
C11_OneSectionPerSelectedInOrder ==
    /\ Len(context_parts) <= Len(relevant_tools)
    /\ Len(calls) = Len(context_parts)
    /\ \A i \in 1..Len(context_parts) :
          /\ calls[i].name = relevant_tools[i]
          /\ SectionHeadedBy(context_parts[i], relevant_tools[i])
    /\ \A i \in 1..Len(relevant_tools) : relevant_tools[i] \in CatalogNames
    /\ ContextAssembled =>
          /\ Len(context_parts) = Len(relevant_tools)
          /\ context_data = Join(context_parts, "\n\n")

C11_Witness ==
    /\ pc = "respond"
    /\ relevant_tools = <<"search_profile_content", "get_profile_overview", "get_publications">>
    /\ Len(context_parts) = 3
    /\ SectionHeadedBy(context_parts[3], "get_publications")
    /\ Contains(context_data, "\n\n=== get_profile_overview ===\n")

\* the texts call_tool returns when session.call_tool raises
AbsorbedErrorTexts == {"Error: " \o e : e \in TransportErrors}

\* the texts call_tool returns when the provider replies
ProviderTexts(name, sent) ==
    {Join(HandleCallTool(name, sent, outcomes), "\n") :
        outcomes \in [FetchedSections(name, sent) -> SessionOutcomes]}

\* the invocation ended in an error text
InvocationFailed(call) == Prefix(call.text, 7) = "Error: "

InteractiveMode ==
    pc \in {"input", "gather", "ollama", "huggingface", "format", "respond"}

\* C12: with the channel established, every invocation of a turn ends in a
\* text (an exception of the call becomes "Error: " and its message) that is
\* the section of its capability; after any invocation, failed or not, the
\* next selected capability can be invoked, then the context is assembled,
\* an answer is generated and the loop returns to the prompt. When the
\* channel is not established no session exists, no input was ever read and
\* the program has stopped.
C12_InvocationFailureAbsorbed ==
    /\ InteractiveMode => session
    /\ \A i \in 1..Len(calls) :
          /\ i <= Len(relevant_tools) /\ calls[i].name = relevant_tools[i]
          /\ calls[i].text \in
                AbsorbedErrorTexts \cup ProviderTexts(calls[i].name, calls[i].arguments)
          /\ i <= Len(context_parts)
          /\ context_parts[i] = ContextSection(calls[i].name, calls[i].text)
    /\ (pc = "gather" /\ Len(calls) < Len(relevant_tools)) =>
          ENABLED (CallNextTool /\ Len(calls') = Len(calls) + 1)
    /\ (pc = "gather" /\ Len(calls) = Len(relevant_tools)) => ENABLED AssembleContext
    /\ pc \in {"ollama", "huggingface", "format"} =>
          ENABLED (AttemptOllama \/ AttemptHuggingface \/ FormatFallback)
    /\ pc = "respond" =>
          /\ Len(calls) = Len(relevant_tools)
          /\ response # None
          /\ ENABLED (PrintResponse /\ pc' = "input")
    /\ pc = "not_connected" =>
          /\ ~session /\ handled_as = "none" /\ raw_input = ""
          /\ relevant_tools = <<>> /\ calls = <<>> /\ response = None
          /\ ~ENABLED Next

C12_Witness ==
    /\ pc = "respond"
    /\ Len(calls) = 3
    /\ calls[1].text \in AbsorbedErrorTexts
    /\ InvocationFailed(calls[2])
    /\ ~InvocationFailed(calls[3])

\* the local endpoint was reached and answered with status 200
LocalReplied200 ==
    /\ ollama_reply # None
    /\ ollama_reply[1].kind = "response"
    /\ ollama_reply[1].status = 200

\* the reply is a JSON object whose answer field is the string text
LocalAnswerIs(text) ==
    /\ ollama_reply[1].body.json = "object"
    /\ "response" \in DOMAIN ollama_reply[1].body.fields
    /\ ollama_reply[1].body.fields["response"] = Some(text)

LocalAnswerTexts == {"", "Haris is a speech researcher."}

\* C13 (as stated): once the local endpoint has answered with status 200 and
\* a JSON object the local backend has succeeded whatever its answer field holds: the answer
\* field is what the turn returns and only the local backend was attempted.
C13_AnyLocalAnswerReturned ==
    (LocalReplied200 /\ ollama_reply[1].body.json = "object") =>
        /\ attempts = <<"local">>
        /\ pc = "respond"
        /\ \A text \in LocalAnswerTexts : LocalAnswerIs(text) => response = Some(text)

\* C13 (amended): a status 200 reply whose answer field is a non-empty string
\* is returned and only the local backend was attempted; a status 200 reply
\* whose answer field is empty, missing or null is not returned: the remote
\* backend is attempted next.
C13_NonEmptyLocalAnswerReturned ==
    (LocalReplied200 /\ ollama_reply[1].body.json = "object") =>
        IF \E text \in LocalAnswerTexts \ {""} : LocalAnswerIs(text)
        THEN /\ attempts = <<"local">>
             /\ pc = "respond"
             /\ \A text \in LocalAnswerTexts : LocalAnswerIs(text) => response = Some(text)
        ELSE /\ pc # "respond" => response = None
             /\ pc = "respond" => response \notin {None, Some("")}
             /\ \/ attempts = <<"local">> /\ pc \in {"huggingface", "goodbye", "done"}
                \/ Len(attempts) >= 2 /\ attempts[1] = "local" /\ attempts[2] = "remote"

C13_Witness ==
    /\ pc = "huggingface"
    /\ LocalReplied200
    /\ LocalAnswerIs("")
    /\ attempts = <<"local">>
    /\ response = None

\* the stripped texts of the elements of the winning selector
Candidates ==
    IF fetch_outcome.kind = "ok" /\ WinningSelector(fetch_outcome) # 0
    THEN fetch_outcome.elements[WinningSelector(fetch_outcome)]
    ELSE <<>>

\* the candidates of at least n characters, in document order
CandidatesOfLength(n) ==
    LET longEnough(text) == Len(text) >= n
    IN  SelectSeq(Candidates, longEnough)

\* C14 (as stated): a candidate fragment of the winning selector is discarded
\* if and only if its stripped text is shorter than 10 characters: the kept
\* fragments are the candidates of 10 characters or more.
C14_DroppedIffShorterThanTen ==
    Extracted => fetch_parts = CandidatesOfLength(10)

\* C14 (amended): a candidate fragment of the winning selector is discarded
\* if and only if its stripped text is 10 characters or shorter: the kept
\* fragments are the candidates of 11 characters or more, in document order,
\* and when there is one the first 20 of them are what is returned.
C14_DroppedIffTenOrShorter ==
    Extracted =>
        /\ fetch_parts = CandidatesOfLength(11)
        /\ \A i \in 1..Len(Candidates) :
              Len(Candidates[i]) <= 10 => Candidates[i] \notin Range(fetch_parts)
        /\ fetch_parts # <<>> =>
              fetch_result[1] = Join(Prefix(fetch_parts, 20), "\n\n")

\* a fragment of exactly 10 characters dropped next to a longer one kept
C14_Witness ==
    /\ Extracted
    /\ Len(Candidates) = 2
    /\ Candidates[1] = "1234567890"
    /\ fetch_parts = <<Candidates[2]>>
    /\ fetch_result[1] = Candidates[2]

=============================================================================
